---- MODULE Spec2Model ----
(***************************************************************************)
(* Model of src/storage.rs: the Address / AddressOffset newtypes and their *)
(* Add and Sub implementations, instantiated at a primitive unsigned       *)
(* integer type U of AddrBits bits.                                        *)
(*                                                                         *)
(* The bodies of add and sub are `self.0 + other.0` and `self.0 - other.0` *)
(* on U.  For a primitive unsigned integer Rust defines the result of an   *)
(* overflowing `+` / `-` by the build: with overflow checks enabled (the   *)
(* default of debug builds) the operation panics, with overflow checks     *)
(* disabled (the default of release builds) it wraps modulo 2^w.  The      *)
(* build is the variable overflow_checks, fixed in Init.                   *)
(*                                                                         *)
(* The capability traits (SingleRead, SingleWrite, MultiRead, MultiWrite,  *)
(* ErasePage) declare method signatures only; they have no body in the     *)
(* repository, so they have no behaviour to model.  Of StorageSize only    *)
(* the two values its geometry methods return are kept (start,             *)
(* total_size), as inputs that delimit the device's address range.         *)
(***************************************************************************)
EXTENDS Integers

VARIABLES
    overflow_checks, \* the build: TRUE = overflow checks on (debug default)
    start,           \* the value of StorageSize::try_start_address
    total_size,      \* the value of StorageSize::try_total_size
    a,               \* the value held by the caller's Address<U>
    o,               \* the value held by the caller's AddressOffset<U>
    pc,              \* the caller's position
    sum,             \* outcome of &Address(a) + &AddressOffset(o)
    diff             \* outcome of the subtraction that was run

vars == <<overflow_checks, start, total_size, a, o, pc, sum, diff>>

\* Width in bits of the unsigned integer type U the model instantiates.
AddrBits == 3

RECURSIVE Pow2(_)
Pow2(n) == IF n = 0 THEN 1 ELSE 2 * Pow2(n - 1)

\* Number of values of U; U::MAX is Modulus - 1.
Modulus == Pow2(AddrBits)

U == 0 .. (Modulus - 1)

\* pub struct Address<U>(pub U): field .0 is v.  panic marks the outcome of
\* an operation that unwound instead of returning an Address.
Address(v) == [panic |-> FALSE, v |-> v]

\* pub struct AddressOffset<U>(pub U): field .0 is v.
AddressOffset(v) == [v |-> v]

\* The outcome of an operation that panicked: no Address is returned.
Panicked == [panic |-> TRUE, v |-> 0]

\* An operation that has not been run.
NotRun == [panic |-> FALSE, v |-> -1]

\* U's `+` for a primitive unsigned integer: the exact sum when it fits,
\* otherwise a panic (overflow checks on) or the sum modulo 2^w (off).
UAdd(x, y) ==
    IF x + y < Modulus THEN [panic |-> FALSE, v |-> x + y]
    ELSE IF overflow_checks THEN [panic |-> TRUE, v |-> 0]
    ELSE [panic |-> FALSE, v |-> (x + y) % Modulus]

\* U's `-` for a primitive unsigned integer: the exact difference when it is
\* not negative, otherwise a panic (overflow checks on) or the difference
\* modulo 2^w (off).
USub(x, y) ==
    IF x >= y THEN [panic |-> FALSE, v |-> x - y]
    ELSE IF overflow_checks THEN [panic |-> TRUE, v |-> 0]
    ELSE [panic |-> FALSE, v |-> (x - y + Modulus) % Modulus]

\* Mutant of add: saturates at U::MAX instead of using U's `+`.
add_saturating(self, other) ==
    IF self.v + other.v < Modulus THEN Address(self.v + other.v)
    ELSE Address(Modulus - 1)

\* Mutant of add: the left operand is read twice (self.0 + self.0).
add_self_twice(self, other) ==
    LET s == UAdd(self.v, self.v)
    IN  IF s.panic THEN Panicked ELSE Address(s.v)

\* fn add(self, other: &AddressOffset<U>) -> Address<U> { Address(self.0 + other.0) }
add(self, other) ==
    LET s == UAdd(self.v, other.v)
    IN  IF s.panic THEN Panicked ELSE Address(s.v)

\* Mutant of sub: saturates at 0 instead of using U's `-`.
sub_saturating(self, other) ==
    IF self.v >= other.v THEN Address(self.v - other.v)
    ELSE Address(0)

\* Mutant of sub: the operands are swapped (other.0 - self.0).
sub_swapped(self, other) ==
    LET d == USub(other.v, self.v)
    IN  IF d.panic THEN Panicked ELSE Address(d.v)

\* fn sub(self, other: &AddressOffset<U>) -> Address<U> { Address(self.0 - other.0) }
sub(self, other) ==
    LET d == USub(self.v, other.v)
    IN  IF d.panic THEN Panicked ELSE Address(d.v)

\* An address of the device: start <= x < start + total_size.
ValidAddress(x) == start <= x /\ x < start + total_size

\* The build is fixed; the device's range [start, start + total_size) is not
\* empty and every address in it is a value of U; the caller holds any
\* address and any offset of U.
Init ==
    /\ overflow_checks \in BOOLEAN
    /\ start \in U
    /\ total_size \in 1 .. Modulus
    /\ start + total_size <= Modulus
    /\ a \in U
    /\ o \in U
    /\ pc = "init"
    /\ sum = NotRun
    /\ diff = NotRun

\* The caller evaluates &Address(a) + &AddressOffset(o).
AddStep ==
    /\ pc = "init"
    /\ sum' = add(Address(a), AddressOffset(o))
    /\ pc' = "added"
    /\ UNCHANGED <<overflow_checks, start, total_size, a, o, diff>>

\* The caller evaluates &Address(a) - &AddressOffset(o).
SubStep ==
    /\ pc = "init"
    /\ diff' = sub(Address(a), AddressOffset(o))
    /\ pc' = "subbed"
    /\ UNCHANGED <<overflow_checks, start, total_size, a, o, sum>>

\* The caller subtracts the same offset from the address the addition
\* returned: &(&Address(a) + &AddressOffset(o)) - &AddressOffset(o).  There
\* is nothing to subtract from when the addition panicked.
SubBack ==
    /\ pc = "added"
    /\ ~sum.panic
    /\ diff' = sub(sum, AddressOffset(o))
    /\ pc' = "back"
    /\ UNCHANGED <<overflow_checks, start, total_size, a, o, sum>>

Next == AddStep \/ SubStep \/ SubBack

Spec == Init /\ [][Next]_vars

(***************************************************************************)
(* Address arithmetic                                                      *)
(***************************************************************************)

\* C1, as amended: &Address(a) + &AddressOffset(o) returns Address(a + o)
\* whenever a + o fits in U; when a + o exceeds U's maximum it returns
\* Address((a + o) mod 2^w) in a build without overflow checks and panics,
\* returning no address, in a build with overflow checks.
C1_AddWrapsOrPanics ==
    pc \in {"added", "back"} =>
        sum = IF a + o < Modulus THEN Address(a + o)
              ELSE IF overflow_checks THEN Panicked
              ELSE Address((a + o) % Modulus)

\* C1, as stated: for every a and o the addition returns
\* Address((a + o) mod 2^w); the sum is always produced.
C1_AddAlwaysWraps ==
    pc \in {"added", "back"} => sum = Address((a + o) % Modulus)

\* C1's case: a + o exceeded U's maximum and the addition returned the
\* wrapped address.
C1_OverflowWrapped ==
    /\ pc = "added"
    /\ a + o >= Modulus
    /\ ~overflow_checks
    /\ sum = Address((a + o) % Modulus)

\* C2, as amended: &Address(a) - &AddressOffset(o) returns Address(a - o)
\* whenever o <= a; when o > a it returns Address((a - o) mod 2^w) in a
\* build without overflow checks and panics, returning no address, in a
\* build with overflow checks.
C2_SubWrapsOrPanics ==
    pc = "subbed" =>
        diff = IF o <= a THEN Address(a - o)
               ELSE IF overflow_checks THEN Panicked
               ELSE Address((a - o + Modulus) % Modulus)

\* C2, as stated: for every a and o the subtraction returns
\* Address((a - o) mod 2^w).
C2_SubAlwaysWraps ==
    pc = "subbed" => diff = Address((a - o + Modulus) % Modulus)

\* C2's case: o > a and the subtraction returned the wrapped address.
C2_UnderflowWrapped ==
    /\ pc = "subbed"
    /\ o > a
    /\ ~overflow_checks
    /\ diff = Address((a - o + Modulus) % Modulus)

\* C3: for an address a of the device and an offset o that keeps a + o an
\* address of the device, the addition returns an address, and subtracting
\* the same o from it returns an address whose value is a.  (A round trip
\* that completes returns a for every a and o.)
C3_RoundTrip ==
    /\ (pc = "added" /\ ValidAddress(a) /\ ValidAddress(a + o)) => ~sum.panic
    /\ pc = "back" => diff = Address(a)

\* C3's case: a round trip with a non-zero offset, inside the device's
\* range, has completed.
C3_RoundTripDone ==
    /\ pc = "back"
    /\ ValidAddress(a) /\ ValidAddress(a + o)
    /\ o > 0
    /\ diff = Address(a)

\* C4: adding AddressOffset(0) to an address returns an address of the same
\* value.
C4_ZeroIsIdentity ==
    (pc \in {"added", "back"} /\ o = 0) => sum = Address(a)

\* C4's case: AddressOffset(0) has been added to a non-zero address.
C4_ZeroAdded ==
    /\ pc = "added"
    /\ o = 0
    /\ a > 0
    /\ sum = Address(a)

====
